---- MODULE Spec2Model ----
(***************************************************************************)
(* SpacyQuickUMLS.__call__ (src/quickumls/spacy_component.py): the spaCy   *)
(* pipeline component that turns QuickUMLS match dictionaries into entity  *)
(* Spans of a Doc.  The Doc, the Span extensions and the StringStore are   *)
(* spaCy objects; they are modelled by what the calls made at lines 95,    *)
(* 97, 101, 103, 104 and 107 do to them (spaCy 3.x, the version the        *)
(* @French.factory registration at line 11 requires).                      *)
(***************************************************************************)
EXTENDS Integers, Sequences, FiniteSets, TLC

\* ------------------------------------------------------------------ bounds
\* at most MaxBatch match dictionaries are returned by one _match call
MaxBatch == 2
\* at most MaxCalls calls of the component are made
MaxCalls == 2
\* each of the two concurrent pipelines interns at most MaxInterns cuis
MaxInterns == 2

\* ------------------------------------------------------------ the document
\* The text of the documents: "diabetes mellitus".  token.idx and len(token)
\* of its tokens (the doc argument of __call__).
TokenIdx == <<0, 9>>
TokenLen == <<8, 8>>

NumTokens == Len(TokenIdx)

\* the result of a call that found nothing (Python's None, C's -1)
None == [none |-> TRUE]

\* Doc.char_span, strict alignment: the index of the token that starts at
\* character c, and of the token that ends at character c; -1 when c is
\* inside a token or outside the text.
token_by_start(c) ==
    IF \E i \in 1..NumTokens : TokenIdx[i] = c
    THEN (CHOOSE i \in 1..NumTokens : TokenIdx[i] = c) - 1
    ELSE -1

token_by_end(c) ==
    IF \E i \in 1..NumTokens : TokenIdx[i] + TokenLen[i] = c
    THEN (CHOOSE i \in 1..NumTokens : TokenIdx[i] + TokenLen[i] = c) - 1
    ELSE -1

\* doc.char_span(start_char_idx, end_char_idx, label=...): the Span over the
\* tokens [start, end) when both offsets are token boundaries, None otherwise.
char_span(start_char_idx, end_char_idx, label) ==
    IF token_by_start(start_char_idx) = -1 \/ token_by_end(end_char_idx) = -1
    THEN None
    ELSE [start |-> token_by_start(start_char_idx),
          end   |-> token_by_end(end_char_idx) + 1,
          label |-> label]

\* Span.start_char and Span.end_char
start_char(span) == TokenIdx[span.start + 1]
end_char(span) == TokenIdx[span.end] + TokenLen[span.end]

\* the tokens a span covers
TokensOf(span) == span.start .. (span.end - 1)

\* ------------------------------------------------------- nlp.vocab.strings
\* StringStore keys are the 64-bit MurmurHash of the string; the table gives
\* the hash of each string the model uses (shortened to fit TLC's integers).
hash_string(s) ==
    CASE s = "C0011860" -> 718600331
      [] s = "C0011849" -> 402918477
      [] s = "PER"      -> 380000912

\* The store: the (key, string) entries in the order they were added.
HasKey(store, key) == \E i \in 1..Len(store) : store[i].key = key

\* a store that appends on every call
StringStoreAddAlways(store, s) ==
    Append(store, [key |-> hash_string(s), str |-> s])

\* self.nlp.vocab.strings.add(cui)
StringStoreAdd(store, s) ==
    IF HasKey(store, hash_string(s))
    THEN store
    ELSE Append(store, [key |-> hash_string(s), str |-> s])

\* a lookup that answers with the key added last
StringStoreGetItemLast(store, s) == store[Len(store)].key

\* self.nlp.vocab.strings[cui]
StringStoreGetItem(store, s) == hash_string(s)

\* ------------------------------------------------------- Span extensions
\* The extensions of lines 79-80.  span._.<name> is stored in doc.user_data
\* under the key ("._.", name, span.start_char, span.end_char): it belongs to
\* the characters the span covers, not to the Span object.
ExtKey(span, name) == <<name, start_char(span), end_char(span)>>

\* span._.<name> = value
SetExt(user_data, span, name, value) ==
    [k \in DOMAIN user_data \cup {ExtKey(span, name)} |->
        IF k = ExtKey(span, name) THEN value ELSE user_data[k]]

HasExt(user_data, span, name) == ExtKey(span, name) \in DOMAIN user_data

\* ------------------------------------------------------------- doc.ents
\* Doc.set_ents: the check that no token is in more than one span
SharesToken(a, b) == TokensOf(a) \cap TokensOf(b) # {}

\* a check that looks at the first token of each span only
HasOverlapFirstToken(entities) ==
    \E i, j \in 1..Len(entities) :
        i < j /\ entities[i].start = entities[j].start

\* a check that lets spans over exactly the same tokens through
HasOverlapNotSame(entities) ==
    \E i, j \in 1..Len(entities) :
        /\ i < j
        /\ SharesToken(entities[i], entities[j])
        /\ ~(entities[i].start = entities[j].start /\ entities[i].end = entities[j].end)

HasOverlap(entities) ==
    \E i, j \in 1..Len(entities) :
        i < j /\ SharesToken(entities[i], entities[j])

\* doc.ents (the getter) reads the spans off the tokens, in token order
RECURSIVE InsertSpan(_, _)
InsertSpan(sorted, span) ==
    IF sorted = << >> THEN <<span>>
    ELSE IF span.start < Head(sorted).start
         THEN <<span>> \o sorted
         ELSE <<Head(sorted)>> \o InsertSpan(Tail(sorted), span)

RECURSIVE SortSpans(_)
SortSpans(entities) ==
    IF entities = << >> THEN << >>
    ELSE InsertSpan(SortSpans(Tail(entities)), Head(entities))

\* a setter where the span given last replaces the spans it overlaps
SetEntsLastWins(entities) ==
    [raised |-> FALSE,
     ents   |-> IF entities = << >> THEN << >>
                ELSE SortSpans(
                       SelectSeq(SubSeq(entities, 1, Len(entities) - 1),
                                 LAMBDA e : ~SharesToken(e, entities[Len(entities)]))
                       \o <<entities[Len(entities)]>>)]

\* a setter that does not check the spans
SetEntsUnchecked(entities) == [raised |-> FALSE, ents |-> SortSpans(entities)]

\* doc.ents = entities: raises ValueError and leaves the document as it was
\* when two of the spans share a token, writes the spans otherwise
SetEnts(entities) ==
    [raised |-> HasOverlap(entities),
     ents   |-> IF HasOverlap(entities) THEN << >> ELSE SortSpans(entities)]

\* ------------------------------------------------- the matching engine
\* What self.quickumls._match can return: the match dictionaries, one at a
\* time in the order the two loops of __call__ visit them.
Cuis == {"C0011860", "C0011849"}
StartOffsets == {0, 1, 9}
EndOffsets == {8, 16, 17}
Keys == {"start", "end", "cui", "similarity", "semtypes"}

\* the similarity (in hundredths) the engine computes between the text of a
\* window and the term of a cui, and the semantic types it reports for a cui
Similarity(start, end, cui) ==
    IF cui = "C0011860" THEN (IF end - start > 8 THEN 95 ELSE 90)
    ELSE (IF end - start > 8 THEN 91 ELSE 93)
Semtypes(cui) == IF cui = "C0011860" THEN {"T047"} ELSE {"T184"}

\* the windows of the text the engine can report: start before end
Windows == {w \in StartOffsets \X EndOffsets : w[1] < w[2]}

MatchDict(start, end, cui) ==
    [start |-> start, end |-> end, cui |-> cui,
     similarity |-> Similarity(start, end, cui), semtypes |-> Semtypes(cui)]

WellFormed == {MatchDict(w[1], w[2], c) : w \in Windows, c \in Cuis}

\* a dictionary without the key k
Without(m, k) == [x \in DOMAIN m \ {k} |-> m[x]]

Malformed ==
    {Without(m, k) : k \in Keys,
                     m \in {w \in WellFormed : /\ w.cui = "C0011860"
                                               /\ w.end = 17}}

MatchDicts == WellFormed \cup Malformed

\* the entities a document can carry when it reaches the component
PER == hash_string("PER")
PreExisting ==
    {<< >>,
     <<[start |-> 0, end |-> 1, label |-> PER]>>,
     <<[start |-> 1, end |-> 2, label |-> PER]>>}

NewDocument(ents) == [ents |-> ents, user_data |-> << >>]

\* ----------------------------------------------------------------- state
VARIABLES
    best_match,        \* self.best_match
    strings,           \* self.nlp.vocab.strings
    doc,               \* the document: doc.ents and doc.user_data
    pc,                \* "idle", "loop", "returned" or "raised"
    exc,               \* the exception __call__ ended with, "none" if none
    n,                 \* the number of dictionaries in matches
    idx,               \* how many of them the loops have visited
    failed_dict,       \* the dictionary whose visit raised, NoDict if none did
    printed,           \* what line 109 printed during this call
    accepted,          \* the dictionaries whose span this call added to doc.ents
    windows,           \* the (start, end) of the dictionaries visited in this call
    issued,            \* every (cui, cui_label_value) line 97 has produced
    calls,             \* calls made so far
    tpc,               \* two pipelines sharing nlp.vocab: where each one is
    tcui,              \* ... the cui each one is at
    tlabel,            \* ... the cui_label_value each one read last
    tdone              \* ... how many cuis each one has been through

vars == <<best_match, strings, doc, pc, exc, n, idx, failed_dict, printed,
          accepted, windows, issued, calls, tpc, tcui, tlabel, tdone>>

callvars == <<best_match, doc, pc, exc, n, idx, failed_dict, printed,
              accepted, windows, calls>>
threadvars == <<tpc, tcui, tlabel, tdone>>

Threads == {1, 2}
NoDict == << >>

InitialStrings == <<[key |-> PER, str |-> "PER"]>>

Init ==
    /\ best_match \in BOOLEAN
    /\ strings = InitialStrings
    /\ doc \in {NewDocument(e) : e \in PreExisting}
    /\ pc = "idle"
    /\ exc = "none"
    /\ n = 0
    /\ idx = 0
    /\ failed_dict = NoDict
    /\ printed = << >>
    /\ accepted = {}
    /\ windows = {}
    /\ issued = {}
    /\ calls = 0
    /\ tpc = [t \in Threads |-> "idle"]
    /\ tcui = [t \in Threads |-> ""]
    /\ tlabel = [t \in Threads |-> 0]
    /\ tdone = [t \in Threads |-> 0]

\* the pipeline hands the component another document
NextDocument(ents) ==
    /\ pc \in {"returned", "raised"}
    /\ doc' = NewDocument(ents)
    /\ pc' = "idle"
    /\ exc' = "none"
    /\ n' = 0
    /\ idx' = 0
    /\ failed_dict' = NoDict
    /\ printed' = << >>
    /\ accepted' = {}
    /\ windows' = {}
    /\ UNCHANGED <<best_match, strings, issued, calls, threadvars>>

\* line 84: __call__ is entered (on the document at hand) and _match returns
\* len_matches dictionaries
Call(len_matches) ==
    /\ pc # "loop"
    /\ calls < MaxCalls
    /\ calls' = calls + 1
    /\ pc' = "loop"
    /\ exc' = "none"
    /\ n' = len_matches
    /\ idx' = 0
    /\ failed_dict' = NoDict
    /\ printed' = << >>
    /\ accepted' = {}
    /\ windows' = {}
    /\ UNCHANGED <<best_match, strings, doc, issued, threadvars>>

Raise(e, m) == pc' = "raised" /\ exc' = e /\ failed_dict' = m

\* lines 87-109: one pass of the loop body over the dictionary m
LoopBody(m) ==
    /\ pc = "loop"
    /\ idx < n
    /\ idx' = idx + 1
    /\ UNCHANGED <<best_match, n, calls, threadvars>>
    /\ IF ~({"start", "end", "cui"} \subseteq DOMAIN m)
       THEN \* lines 90, 91, 93: KeyError
            /\ Raise("KeyError", m)
            /\ UNCHANGED <<strings, doc, printed, accepted, windows, issued>>
       ELSE
         LET added == StringStoreAdd(strings, m.cui)
             cui_label_value == StringStoreGetItem(added, m.cui)
             span == char_span(m.start, m.end, cui_label_value)
         IN
         /\ strings' = added
         /\ issued' = issued \cup {<<m.cui, cui_label_value>>}
         /\ windows' = windows \cup {<<m.start, m.end>>}
         /\ IF "similarity" \notin DOMAIN m
            THEN \* line 103, the right-hand side is evaluated first
                 /\ Raise("KeyError", m)
                 /\ UNCHANGED <<doc, printed, accepted>>
            ELSE IF span = None
            THEN \* line 103: None has no attribute '_'
                 /\ Raise("AttributeError", m)
                 /\ UNCHANGED <<doc, printed, accepted>>
            ELSE IF "semtypes" \notin DOMAIN m
            THEN \* line 104, after line 103 has stored the similarity
                 /\ Raise("KeyError", m)
                 /\ doc' = [doc EXCEPT !.user_data =
                              SetExt(@, span, "similarity", m.similarity)]
                 /\ UNCHANGED <<printed, accepted>>
            ELSE
              LET data == SetExt(SetExt(doc.user_data, span, "similarity", m.similarity),
                                 span, "semtypes", m.semtypes)
                  set == SetEnts(doc.ents \o <<span>>)
              IN
              /\ UNCHANGED <<pc, exc, failed_dict>>
              /\ IF set.raised
                 THEN \* line 109
                      /\ printed' = Append(printed, [start |-> span.start, end |-> span.end])
                      /\ doc' = [doc EXCEPT !.user_data = data]
                      /\ UNCHANGED accepted
                 ELSE \* line 107
                      /\ doc' = [ents |-> set.ents, user_data |-> data]
                      /\ accepted' = accepted \cup {m}
                      /\ UNCHANGED printed

\* line 112
Return ==
    /\ pc = "loop"
    /\ idx = n
    /\ pc' = "returned"
    /\ UNCHANGED <<best_match, strings, doc, exc, n, idx, failed_dict,
                   printed, accepted, windows, issued, calls, threadvars>>

Next ==
    \/ \E len_matches \in 0..MaxBatch : Call(len_matches)
    \/ \E m \in MatchDicts : LoopBody(m)
    \/ Return
    \/ \E ents \in PreExisting : NextDocument(ents)

Spec == Init /\ [][Next]_vars

\* --------------------------------------- two pipelines, one nlp.vocab
\* Two documents are annotated at the same time by two threads that share
\* self.nlp.vocab.strings.  Each StringStore call runs to its end before the
\* other thread runs (the interpreter lock is held throughout a call), so the
\* threads interleave between line 95 and line 97.  Lines 101-109 work on
\* the thread's own document only.

\* line 93: cui = ngram_match_dict['cui']
T_Fetch(t, cui) ==
    /\ tpc[t] = "idle"
    /\ tdone[t] < MaxInterns
    /\ tcui' = [tcui EXCEPT ![t] = cui]
    /\ tpc' = [tpc EXCEPT ![t] = "add"]
    /\ UNCHANGED <<callvars, strings, issued, tlabel, tdone>>

\* line 95: self.nlp.vocab.strings.add(cui)
T_Add(t) ==
    /\ tpc[t] = "add"
    /\ strings' = StringStoreAdd(strings, tcui[t])
    /\ tpc' = [tpc EXCEPT ![t] = "lookup"]
    /\ UNCHANGED <<callvars, issued, tcui, tlabel, tdone>>

\* line 97: cui_label_value = self.nlp.vocab.strings[cui]
T_Lookup(t) ==
    /\ tpc[t] = "lookup"
    /\ tlabel' = [tlabel EXCEPT ![t] = StringStoreGetItem(strings, tcui[t])]
    /\ issued' = issued \cup {<<tcui[t], StringStoreGetItem(strings, tcui[t])>>}
    /\ tdone' = [tdone EXCEPT ![t] = @ + 1]
    /\ tpc' = [tpc EXCEPT ![t] = "idle"]
    /\ UNCHANGED <<callvars, strings, tcui>>

NextConcurrent ==
    \/ \E t \in Threads, cui \in Cuis : T_Fetch(t, cui)
    \/ \E t \in Threads : T_Add(t)
    \/ \E t \in Threads : T_Lookup(t)

SpecConcurrent == Init /\ [][NextConcurrent]_vars

\* ------------------------------------------------------------ properties
IsWellFormed(m) == DOMAIN m = Keys
IsMisaligned(m) ==
    /\ {"start", "end"} \subseteq DOMAIN m
    /\ char_span(m.start, m.end, 0) = None
SameTokens(a, b) == a.start = b.start /\ a.end = b.end
\* the tokens of the span of an aligned dictionary
SpanOf(m) == char_span(m.start, m.end, 0)
Ents == {doc.ents[i] : i \in 1..Len(doc.ents)}
EntsNext == {doc'.ents[i] : i \in 1..Len(doc'.ents)}
Printed == {printed[i] : i \in 1..Len(printed)}
\* a pass of the loop body has just been made
Visit == pc = "loop" /\ idx' = idx + 1

\* C1: a well-formed dictionary whose start or end is inside a token gets a
\* diagnostic and does not end the call.
C1_MisalignedIsReportedNotRaised ==
    (IsWellFormed(failed_dict) /\ IsMisaligned(failed_dict))
        => (pc # "raised" /\ printed # << >>)

\* C2: doc.ents never holds two spans that share a token without covering
\* exactly the same tokens.
C2_NoPartialOverlap ==
    \A i, j \in 1..Len(doc.ents) :
        (i < j /\ SharesToken(doc.ents[i], doc.ents[j]))
            => SameTokens(doc.ents[i], doc.ents[j])

C2_Witness ==
    /\ pc = "returned"
    /\ calls = 2
    /\ Len(doc.ents) = 2
    /\ \E p \in Printed, e \in Ents : SharesToken(p, e) /\ ~SameTokens(p, e)

\* C3: first seen wins.  Every pass of the loop body ends in exactly one of a
\* span added, a line printed, an exception; every span of doc.ents is still
\* there after the pass; a span that is added shares no token with the spans
\* that were there; a printed candidate leaves doc.ents as it was and the
\* call going; and an exception is raised only on a dictionary that has no
\* span (a missing key, an offset inside a token), never on an overlap.
C3_FirstSeenWins ==
    [][Visit =>
        /\ Ents \subseteq EntsNext
        /\ \A a \in accepted' \ accepted :
              \A e \in Ents : ~SharesToken(SpanOf(a), e)
        /\ printed' # printed => (pc' = "loop" /\ doc'.ents = doc.ents)
        /\ pc' = "raised" => (~IsWellFormed(failed_dict') \/ IsMisaligned(failed_dict'))
        /\ \/ /\ Cardinality(accepted') = Cardinality(accepted) + 1
              /\ printed' = printed /\ pc' = "loop"
           \/ /\ Len(printed') = Len(printed) + 1
              /\ accepted' = accepted /\ pc' = "loop"
           \/ /\ pc' = "raised"
              /\ accepted' = accepted /\ printed' = printed
    ]_vars

\* a candidate dropped for a partial overlap with a span an earlier call
\* added, and one dropped for a span the same call added
C3_Witness ==
    /\ calls = 2
    /\ \E p \in Printed, e \in Ents :
          /\ SharesToken(p, e) /\ ~SameTokens(p, e) /\ e.label # PER
          /\ \A a \in accepted : ~SameTokens(SpanOf(a), e)
    /\ \E p \in Printed, a \in accepted :
          SharesToken(p, SpanOf(a)) /\ ~SameTokens(p, SpanOf(a))

RegistryInjective ==
    /\ \A i, j \in 1..Len(strings) :
          i # j => (strings[i].key # strings[j].key /\ strings[i].str # strings[j].str)
    /\ \A p \in issued :
          \E i \in 1..Len(strings) : strings[i].str = p[1] /\ strings[i].key = p[2]
    /\ \A p, q \in issued : (p[1] = q[1]) <=> (p[2] = q[2])

RegistryGrows ==
    /\ Len(strings') >= Len(strings)
    /\ \A i \in 1..Len(strings) : strings'[i] = strings[i]
    /\ issued \subseteq issued'

\* C5: every step leaves the store injective and keeps what it held.
C5_RegistryStableInjective == [][RegistryInjective' /\ RegistryGrows]_vars

\* by the second call both cuis are in the store, and the call has added the
\* spans of two dictionaries with the same cui: it interned that cui twice
C5_Witness ==
    /\ calls = 2
    /\ Len(strings) = 3
    /\ \E a, b \in accepted : a # b /\ a.cui = b.cui

\* C6: when the call is over and no dictionary lacked a key, every
\* dictionary of the batch is a span added or a line printed.
C6_NothingSilentlyDropped ==
    (pc \in {"returned", "raised"} /\ (pc = "raised" => IsWellFormed(failed_dict)))
        => Cardinality(accepted) + Len(printed) = n

\* C7: when the call returns, the span of every dictionary it added is in
\* doc.ents with the value interned for the dictionary's cui as its label and
\* with the dictionary's similarity and semtypes as its extensions.
C7_SpanCarriesItsOwnMetadata ==
    pc = "returned" =>
        \A a \in accepted :
            \E e \in Ents :
                /\ SameTokens(e, SpanOf(a))
                /\ <<a.cui, e.label>> \in issued
                /\ HasExt(doc.user_data, e, "similarity")
                /\ doc.user_data[ExtKey(e, "similarity")] = a.similarity
                /\ HasExt(doc.user_data, e, "semtypes")
                /\ doc.user_data[ExtKey(e, "semtypes")] = a.semtypes

\* C8: the call ends in an exception only on a dictionary that lacks a key,
\* and then the spans added before are still in doc.ents.
C8_OnlyMalformedRaises ==
    pc = "raised" =>
        /\ ~IsWellFormed(failed_dict)
        /\ \A a \in accepted : \E e \in Ents : SameTokens(e, SpanOf(a))

\* every dictionary visited in this call had a window of its own
OnePerWindow == Cardinality(windows) = idx

\* C9: with best_match = True and every dictionary of the batch on a window of
\* its own, doc.ents holds at most one span per token range.
C9_OneSpanPerWindow ==
    (best_match /\ OnePerWindow) =>
        \A i, j \in 1..Len(doc.ents) :
            i < j => ~SameTokens(doc.ents[i], doc.ents[j])

\* a second call on the same document found the window of a span again
C9_Witness ==
    /\ best_match
    /\ OnePerWindow
    /\ pc = "returned"
    /\ calls = 2
    /\ n = 2
    /\ \E p \in Printed, e \in Ents : SameTokens(p, e) /\ e.label # PER

\* C10: in every interleaving of the two threads' add and lookup steps, each
\* cui has one entry in the store, no key belongs to two cuis, and the value a
\* thread has read is the key of the entry of the cui it added.
C10_InterleavedIntern ==
    /\ \A i, j \in 1..Len(strings) :
          i # j => (strings[i].key # strings[j].key /\ strings[i].str # strings[j].str)
    /\ \A p, q \in issued : (p[1] = q[1]) <=> (p[2] = q[2])
    /\ \A t \in Threads :
          (tpc[t] = "idle" /\ tdone[t] > 0) =>
              \E i \in 1..Len(strings) :
                  strings[i].str = tcui[t] /\ strings[i].key = tlabel[t]
    /\ \A t \in Threads :
          tpc[t] = "lookup" => \E i \in 1..Len(strings) : strings[i].str = tcui[t]

\* thread 1 added its cui, thread 2 added another one after it, and thread 1
\* then read its value
C10_Witness ==
    /\ tpc[1] = "idle" /\ tdone[1] = 1
    /\ tpc[2] = "lookup" /\ tdone[2] = 0
    /\ tcui[1] # tcui[2]
    /\ Len(strings) = 3
    /\ strings[3].str = tcui[2]

====
